---- MODULE Spec2Model ----
(***************************************************************************)
(* A model of repo_alchemy: the filter variants of _filters.py, the        *)
(* statement builder of _build.py, the paginators of _paginate.py, the     *)
(* result resolver of _resolver.py and the repository of _repository.py.   *)
(*                                                                         *)
(* Python values are tagged records ([t |-> "int", v |-> 3]); a SQL        *)
(* statement is a record of its WHERE predicates, ORDER BY list, LIMIT and *)
(* OFFSET; the database is a set of rows against which a statement is      *)
(* evaluated.                                                              *)
(***************************************************************************)
EXTENDS Integers, Sequences, FiniteSets, TLC

VARIABLES
    statement,   \* filters: the statement the next filter is appended to
    models,      \* filters: the candidate record types of that statement
    applied,     \* filters: the last filter application and its outcome
    builder,     \* Repository.__builder
    resolver,    \* Repository.__resolver
    paginate,    \* Repository.__paginate
    call,        \* Repository: the last get_* call, its arguments and outcome
    pg           \* paginators: the last paginate() call and its result

vars == <<statement, models, applied, builder, resolver, paginate, call, pg>>

filterVars == <<statement, models, applied>>
repoVars == <<builder, resolver, paginate, call>>

----------------------------------------------------------------------------
(* Bounds *)

MaxDay == 2          \* calendar days 1..MaxDay
MaxId == 3           \* primary keys 1..MaxId
MaxCount == 96       \* row counts handed to a paginator
MaxLimit == 31       \* page sizes handed to a paginator, -MaxLimit..MaxLimit

----------------------------------------------------------------------------
(* Python values *)

None == [t |-> "none"]
PyInt(v) == [t |-> "int", v |-> v]
PyStr(s) == [t |-> "str", s |-> s]            \* s: a sequence of characters
PyList(xs) == [t |-> "list", xs |-> xs]     \* xs: a sequence of values
PyBool(b) == [t |-> "bool", v |-> b]
PyDict(d) == [t |-> "dict", d |-> d]        \* d: a function from names
DatesType(min, max) == [t |-> "DatesType", min |-> min, max |-> max]
Date(d) == [t |-> "date", day |-> d]
DateTime(d, h, m, s, us) ==
    [t |-> "datetime", day |-> d, hour |-> h, minute |-> m, second |-> s,
     microsecond |-> us]
NoneStr == PyStr(<<"n", "o", "n", "e">>)      \* the "none" sentinel of DatesType

\* datetime.datetime is a subclass of datetime.date
IsDateTime(v) == v.t = "datetime"

\* bool(v): None, 0, "" and empty collections are falsy, dates never are
Truthy(v) ==
    CASE v.t = "none" -> FALSE
      [] v.t = "int" -> v.v # 0
      [] v.t = "bool" -> v.v
      [] v.t = "str" -> Len(v.s) > 0
      [] v.t = "list" -> Len(v.xs) > 0
      [] v.t = "dict" -> DOMAIN v.d # {}
      [] OTHER -> TRUE

\* datetime.replace(hour=, minute=, second=): the microsecond is kept
Replace(v, h, m, s) == [v EXCEPT !.hour = h, !.minute = m, !.second = s]

----------------------------------------------------------------------------
(* Record types and mapped attributes *)

\* A record type: its class name, its table name, the names of its mapped
\* columns and the names of its other class attributes, all of which hasattr()
\* sees: the __table__ that ModelProtocol requires of every record type and,
\* on User, a plain property named display.
User ==
    [name |-> "User", table |-> "users",
     mapped |-> {"id", "status", "created_at"},
     other |-> {"__table__", "display"}]
Profile ==
    [name |-> "Profile", table |-> "profiles",
     mapped |-> {"id", "display", "bio"},
     other |-> {"__table__"}]

\* getattr(model, key): a mapped attribute or some other class attribute
Attr(model, key) ==
    [t |-> "attr", model |-> model.name, key |-> key,
     mapped |-> key \in model.mapped]

HasAttr(model, key) == key \in model.mapped \cup model.other

\* A field key: a name or an InstrumentedAttribute handle
Name(s) == [t |-> "name", s |-> s]

Raise(type, key, tables) ==
    [raised |-> TRUE, error |-> [type |-> type, key |-> key, tables |-> tables]]
Return(v) == [raised |-> FALSE, value |-> v]

TableNames(ms) == [i \in 1..Len(ms) |-> ms[i].table]

RECURSIVE FirstWithAttr(_, _, _)
FirstWithAttr(ms, key, i) ==
    IF i > Len(ms) THEN 0
    ELSE IF HasAttr(ms[i], key) THEN i
    ELSE FirstWithAttr(ms, key, i + 1)

\* StatementFilter._get_instrumented_attr
GetInstrumentedAttr(ms, key) ==
    LET k == IF key.t = "attr" THEN key.key ELSE key.s
        i == FirstWithAttr(ms, k, 1)
    IN  IF i # 0 THEN Return(Attr(ms[i], k))
        ELSE Raise("AttributeError", k, TableNames(ms))

----------------------------------------------------------------------------
(* Statements *)

\* select(model): no WHERE, no ORDER BY, no LIMIT, no OFFSET
Select(model) ==
    [columns |-> "entity", from |-> model.name, where |-> <<>>,
     order_by |-> <<>>, limit |-> None, offset |-> None]

Where(stmt, pred) == [stmt EXCEPT !.where = Append(@, pred)]
OrderByClause(stmt, field, dir) ==
    [stmt EXCEPT !.order_by = Append(@, [field |-> field, dir |-> dir])]
Limit(stmt, n) == [stmt EXCEPT !.limit = n]
Offset(stmt, n) == [stmt EXCEPT !.offset = n]

Cmp(op, field, value) == [op |-> op, field |-> field, value |-> value]
Between(field, lo, hi) == [op |-> "between", field |-> field, lo |-> lo, hi |-> hi]
Text(sql) == [op |-> "text", sql |-> sql]

----------------------------------------------------------------------------
(* Filters: one record per dataclass of _filters.py *)

LimitOffset(limit, offset) ==
    [cls |-> "LimitOffset", limit |-> limit, offset |-> offset]
OrderBy(field_name, sort_order, mapping_to_attr) ==
    [cls |-> "OrderBy", field_name |-> field_name, sort_order |-> sort_order,
     mapping_to_attr |-> mapping_to_attr]
EqFilter(field_name, value) ==
    [cls |-> "EqFilter", field_name |-> field_name, value |-> value]
DatesTypeFilter(field_name, value) ==
    [cls |-> "DatesTypeFilter", field_name |-> field_name, value |-> value]
SearchFilter(field_name, value, ignore_case, mapping_to_attr) ==
    [cls |-> "SearchFilter", field_name |-> field_name, value |-> value,
     ignore_case |-> ignore_case, mapping_to_attr |-> mapping_to_attr]
InFilter(field_name, values) ==
    [cls |-> "InFilter", field_name |-> field_name, values |-> values]
NotInFilter(field_name, values) ==
    [cls |-> "NotInFilter", field_name |-> field_name, values |-> values]
BeforeFilter(field_name, value) ==
    [cls |-> "BeforeFilter", field_name |-> field_name, value |-> value]
OnBeforeFilter(field_name, value) ==
    [cls |-> "OnBeforeFilter", field_name |-> field_name, value |-> value]
AfterFilter(field_name, value) ==
    [cls |-> "AfterFilter", field_name |-> field_name, value |-> value]
OnAfterFilter(field_name, value) ==
    [cls |-> "OnAfterFilter", field_name |-> field_name, value |-> value]

\* A Python operator applied to a resolved attribute.  On a mapped attribute
\* it builds a SQL predicate.  On any other class attribute `==` is Python's
\* default equality (False, which where() coerces to a false clause) and every
\* other operator or method is missing and raises.
Operate(op, field, value) ==
    IF field.mapped THEN Return(Cmp(op, field, value))
    ELSE IF op = "==" THEN Return(Text("false"))
    ELSE Raise("TypeError", field.key, <<>>)

\* LimitOffset.append_to_statement
LimitOffset_append(f, stmt, ms) ==
    Return(Offset(Limit(stmt, PyInt(f.limit)), PyInt(f.offset)))

\* OrderBy.append_to_statement
OrderBy_append(f, stmt, ms) ==
    IF f.field_name.t = "none" \/ f.field_name.s = "" THEN Return(stmt)
    ELSE LET got == IF Truthy(f.mapping_to_attr)
                       /\ f.field_name.s \in DOMAIN f.mapping_to_attr.d
                    THEN Return(f.mapping_to_attr.d[f.field_name.s])
                    ELSE GetInstrumentedAttr(ms, f.field_name)
         IN  IF got.raised THEN got
             ELSE IF ~got.value.mapped
                  THEN Raise("TypeError", got.value.key, <<>>)
             ELSE IF f.sort_order = "desc"
                  THEN Return(OrderByClause(stmt, got.value, "desc"))
             ELSE Return(OrderByClause(stmt, got.value, "asc"))

\* statement.where(<field op value>) once the field is resolved
WhereOp(stmt, op, field, value) ==
    LET e == Operate(op, field, value)
    IN  IF e.raised THEN e ELSE Return(Where(stmt, e.value))

\* EqFilter.append_to_statement
EqFilter_append(f, stmt, ms) ==
    IF ~Truthy(f.value) THEN Return(stmt)
    ELSE LET got == GetInstrumentedAttr(ms, f.field_name)
         IN  IF got.raised THEN got
             ELSE WhereOp(stmt, "==", got.value, f.value)

\* _get_min_max with the max normalized like the min, to the start of its day
GetMinMax_MaxToMidnight(value) ==
    LET min0 == IF value.min = NoneStr THEN None ELSE value.min
        max0 == IF value.max = NoneStr THEN None ELSE value.max
        min1 == IF IsDateTime(min0) THEN Replace(min0, 0, 0, 0) ELSE min0
        max1 == IF IsDateTime(max0) THEN Replace(max0, 0, 0, 0) ELSE max0
    IN  <<min1, max1>>

\* DatesTypeFilter._get_min_max
GetMinMax(value) ==
    LET min0 == IF value.min = NoneStr THEN None ELSE value.min
        max0 == IF value.max = NoneStr THEN None ELSE value.max
        min1 == IF IsDateTime(min0) THEN Replace(min0, 0, 0, 0) ELSE min0
        max1 == IF IsDateTime(max0) THEN Replace(max0, 23, 59, 59) ELSE max0
    IN  <<min1, max1>>

\* DatesTypeFilter.append_to_statement
DatesTypeFilter_append(f, stmt, ms) ==
    IF ~Truthy(f.value) THEN Return(stmt)
    ELSE LET got == GetInstrumentedAttr(ms, f.field_name)
             mm == GetMinMax(f.value)
             min == mm[1]
             max == mm[2]
         IN  IF got.raised THEN got
             ELSE IF Truthy(min) /\ Truthy(max)
                  THEN IF got.value.mapped
                       THEN Return(Where(stmt, Between(got.value, min, max)))
                       ELSE Raise("TypeError", got.value.key, <<>>)
             ELSE IF Truthy(min) THEN WhereOp(stmt, ">=", got.value, min)
             ELSE IF Truthy(max) THEN WhereOp(stmt, "<=", got.value, max)
             ELSE Return(stmt)

\* SearchFilter._func
SearchFunc(f) == IF Truthy(f.ignore_case) THEN "ilike" ELSE "like"

\* SearchFilter.append_to_statement
SearchFilter_append(f, stmt, ms) ==
    IF ~Truthy(f.value) THEN Return(stmt)
    ELSE LET got == IF Truthy(f.mapping_to_attr)
                    THEN Return(f.mapping_to_attr)
                    ELSE GetInstrumentedAttr(ms, f.field_name)
         IN  IF got.raised THEN got
             ELSE WhereOp(stmt, SearchFunc(f), got.value,
                          PyStr(<<"%">> \o f.value.s \o <<"%">>))

\* InFilter.append_to_statement with an empty list skipped like None
InFilter_append_EmptySkipped(f, stmt, ms) ==
    LET got == GetInstrumentedAttr(ms, f.field_name)
    IN  IF got.raised THEN got
        ELSE IF ~Truthy(f.values) THEN Return(stmt)
        ELSE WhereOp(stmt, "in", got.value, f.values)

\* InFilter.append_to_statement
InFilter_append(f, stmt, ms) ==
    LET got == GetInstrumentedAttr(ms, f.field_name)
    IN  IF got.raised THEN got
        ELSE IF f.values.t = "none" THEN Return(stmt)
        ELSE IF ~Truthy(f.values) THEN Return(Where(stmt, Text("1=-1")))
        ELSE WhereOp(stmt, "in", got.value, f.values)

\* NotInFilter.append_to_statement
NotInFilter_append(f, stmt, ms) ==
    LET got == GetInstrumentedAttr(ms, f.field_name)
    IN  IF got.raised THEN got
        ELSE IF ~Truthy(f.values) THEN Return(stmt)
        ELSE WhereOp(stmt, "in", got.value, f.values)

\* The shared body of BeforeFilter, OnBeforeFilter, AfterFilter and
\* OnAfterFilter, which differ in the operator only
Compare_append(op, f, stmt, ms) ==
    LET got == GetInstrumentedAttr(ms, f.field_name)
    IN  IF got.raised THEN got
        ELSE IF f.value.t # "none" THEN WhereOp(stmt, op, got.value, f.value)
        ELSE Return(stmt)

\* BeforeFilter.append_to_statement
BeforeFilter_append(f, stmt, ms) == Compare_append("<", f, stmt, ms)

\* OnBeforeFilter.append_to_statement
OnBeforeFilter_append(f, stmt, ms) == Compare_append("<=", f, stmt, ms)

\* AfterFilter.append_to_statement
AfterFilter_append(f, stmt, ms) == Compare_append(">", f, stmt, ms)

\* OnAfterFilter.append_to_statement
OnAfterFilter_append(f, stmt, ms) == Compare_append(">=", f, stmt, ms)

\* flt.append_to_statement(statement, models), dispatched on the class
AppendToStatement(f, stmt, ms) ==
    CASE f.cls = "LimitOffset" -> LimitOffset_append(f, stmt, ms)
      [] f.cls = "OrderBy" -> OrderBy_append(f, stmt, ms)
      [] f.cls = "EqFilter" -> EqFilter_append(f, stmt, ms)
      [] f.cls = "DatesTypeFilter" -> DatesTypeFilter_append(f, stmt, ms)
      [] f.cls = "SearchFilter" -> SearchFilter_append(f, stmt, ms)
      [] f.cls = "InFilter" -> InFilter_append(f, stmt, ms)
      [] f.cls = "NotInFilter" -> NotInFilter_append(f, stmt, ms)
      [] f.cls = "BeforeFilter" -> BeforeFilter_append(f, stmt, ms)
      [] f.cls = "OnBeforeFilter" -> OnBeforeFilter_append(f, stmt, ms)
      [] f.cls = "AfterFilter" -> AfterFilter_append(f, stmt, ms)
      [] f.cls = "OnAfterFilter" -> OnAfterFilter_append(f, stmt, ms)

----------------------------------------------------------------------------
(* The database: what a statement matches.  Columns are NOT NULL. *)

Ord(c) ==
    CASE c = "%" -> 37 [] c = "A" -> 65 [] c = "B" -> 66
      [] c = "a" -> 97 [] c = "b" -> 98

Lower(c) == CASE c = "A" -> "a" [] c = "B" -> "b" [] OTHER -> c
LowerStr(s) == [i \in 1..Len(s) |-> Lower(s[i])]

\* A bind parameter as the column's type sends it: a plain date compared with
\* a DateTime column is that day's midnight
Bind(v) == IF v.t = "date" THEN DateTime(v.day, 0, 0, 0, 0) ELSE v

\* The sort key of a SQL value
Key(v) ==
    CASE v.t = "int" -> <<v.v>>
      [] v.t = "datetime" ->
            <<v.day, v.hour, v.minute, v.second, v.microsecond>>
      [] v.t = "str" -> [i \in 1..Len(v.s) |-> Ord(v.s[i])]

Comparable(a, b) == a.t = b.t /\ a.t \in {"int", "datetime", "str"}

RECURSIVE LexLess(_, _)
LexLess(a, b) ==
    IF b = <<>> THEN FALSE
    ELSE IF a = <<>> THEN TRUE
    ELSE IF Head(a) # Head(b) THEN Head(a) < Head(b)
    ELSE LexLess(Tail(a), Tail(b))

SqlLt(a, b) == Comparable(a, b) /\ LexLess(Key(a), Key(b))
SqlLe(a, b) == Comparable(a, b) /\ (a = b \/ LexLess(Key(a), Key(b)))

RECURSIVE LikeMatch(_, _)
LikeMatch(pattern, s) ==
    IF pattern = <<>> THEN s = <<>>
    ELSE IF Head(pattern) = "%"
         THEN LikeMatch(Tail(pattern), s)
              \/ (s # <<>> /\ LikeMatch(pattern, Tail(s)))
    ELSE s # <<>> /\ Head(pattern) = Head(s)
         /\ LikeMatch(Tail(pattern), Tail(s))

SqlLike(v, pattern, ignore_case) ==
    /\ v.t = "str"
    /\ pattern.t = "str"
    /\ IF ignore_case THEN LikeMatch(LowerStr(pattern.s), LowerStr(v.s))
       ELSE LikeMatch(pattern.s, v.s)

RowValue(row, field) == row[field.model][field.key]

\* Whether a row satisfies one WHERE predicate
Match(pred, row) ==
    CASE pred.op = "text" -> FALSE
      [] pred.op = "between" ->
            /\ SqlLe(Bind(pred.lo), RowValue(row, pred.field))
            /\ SqlLe(RowValue(row, pred.field), Bind(pred.hi))
      [] pred.op = "==" -> RowValue(row, pred.field) = Bind(pred.value)
      [] pred.op = "in" ->
            \E i \in 1..Len(pred.value.xs) :
                RowValue(row, pred.field) = Bind(pred.value.xs[i])
      [] pred.op = "<" -> SqlLt(RowValue(row, pred.field), Bind(pred.value))
      [] pred.op = "<=" -> SqlLe(RowValue(row, pred.field), Bind(pred.value))
      [] pred.op = ">" -> SqlLt(Bind(pred.value), RowValue(row, pred.field))
      [] pred.op = ">=" -> SqlLe(Bind(pred.value), RowValue(row, pred.field))
      [] pred.op = "like" -> SqlLike(RowValue(row, pred.field), pred.value, FALSE)
      [] pred.op = "ilike" -> SqlLike(RowValue(row, pred.field), pred.value, TRUE)

\* Whether a row satisfies the whole WHERE clause (a conjunction)
Matches(stmt, row) == \A i \in 1..Len(stmt.where) : Match(stmt.where[i], row)

TimesOfDay ==
    {<<0, 0, 0, 0>>, <<0, 0, 0, 5>>, <<12, 30, 15, 0>>, <<23, 59, 59, 0>>,
     <<23, 59, 59, 5>>}
Days == 1..MaxDay
Ids == 1..MaxId
Dates == {Date(d) : d \in Days}
DateTimes == {DateTime(d, x[1], x[2], x[3], x[4]) : d \in Days, x \in TimesOfDay}
Statuses == {PyStr(<<"a">>), PyStr(<<"A", "b">>)}

\* Every row the joined tables may hold
RowUniverse ==
    {[User |-> [id |-> PyInt(i), status |-> st, created_at |-> ts],
      Profile |-> [id |-> PyInt(i), display |-> PyStr(<<"b">>),
                   bio |-> PyStr(<<"a", "b">>)]] :
        i \in Ids, st \in Statuses, ts \in DateTimes}

----------------------------------------------------------------------------
(* Inputs of the filters *)

FieldNames ==
    {"id", "status", "created_at", "display", "bio", "__table__", "nonexistent"}
Names == {Name(n) : n \in FieldNames}

\* Candidate lists as a builder's _stmt() hands them out
CandidateLists == {<<User>>, <<User, Profile>>, <<Profile, User>>}

\* The non-empty lists of primary keys, in increasing order
IdLists ==
    {xs \in UNION {[1..n -> Ids] : n \in 1..MaxId} :
        \A i \in 1..(Len(xs) - 1) : xs[i] < xs[i + 1]}
PyIdLists == {PyList([i \in 1..Len(xs) |-> PyInt(xs[i])]) : xs \in IdLists}

RangeBounds == Dates \cup DateTimes

LimitOffsets == {LimitOffset(l, o) : l \in 0..2, o \in 0..1}
OrderBys ==
    {OrderBy(n, d, m) :
        n \in Names \cup {None, Name(""), Name("alias")},
        d \in {"asc", "desc"},
        m \in {None, PyDict(<<>>), PyDict("alias" :> Attr(Profile, "bio"))}}
EqFilters ==
    {EqFilter(n, v) :
        n \in Names,
        v \in {None, PyStr(<<>>), PyInt(0), PyList(<<>>), PyInt(1), PyInt(2)}
              \cup Statuses}
DatesTypes == {DatesType(a, b) : a, b \in RangeBounds \cup {NoneStr}}
DatesTypeFilters ==
    {DatesTypeFilter(n, v) : n \in Names, v \in DatesTypes \cup {None}}
SearchFilters ==
    {SearchFilter(n, v, c, m) :
        n \in Names,
        v \in {None, PyStr(<<>>), PyStr(<<"a">>), PyStr(<<"B">>)},
        c \in {PyBool(TRUE), PyBool(FALSE), None},
        m \in {None, Attr(Profile, "bio")}}
InValues == {None, PyList(<<>>)} \cup PyIdLists
InFilters == {InFilter(n, v) : n \in Names, v \in InValues}
NotInFilters == {NotInFilter(n, v) : n \in Names, v \in InValues}
CompareValues ==
    {None, PyStr(<<>>)} \cup {PyInt(i) : i \in 0..MaxId} \cup RangeBounds
BeforeFilters == {BeforeFilter(n, v) : n \in Names, v \in CompareValues}
OnBeforeFilters == {OnBeforeFilter(n, v) : n \in Names, v \in CompareValues}
AfterFilters == {AfterFilter(n, v) : n \in Names, v \in CompareValues}
OnAfterFilters == {OnAfterFilter(n, v) : n \in Names, v \in CompareValues}

\* Statements a filter may be appended to: the base statement and the base
\* statement with an earlier filter already folded in
InputStatements ==
    {Select(User),
     Where(Select(User), Cmp("==", Attr(User, "status"), PyStr(<<"a">>))),
     Where(Select(User), Cmp(">=", Attr(User, "id"), PyInt(2))),
     Offset(Limit(OrderByClause(Select(User), Attr(User, "id"), "desc"),
                  PyInt(2)), PyInt(0))}

----------------------------------------------------------------------------
(* SpecFilter: filters appended to a statement *)

NoCall == [method |-> "none"]
NoPg == [cls |-> "none"]

InitFilter ==
    /\ statement \in InputStatements
    /\ models \in CandidateLists
    /\ applied = [flt |-> [cls |-> "none"], result |-> Return(statement)]
    /\ builder = None
    /\ resolver = None
    /\ paginate = None
    /\ call = NoCall
    /\ pg = NoPg

\* One filter is appended to the input statement and its outcome recorded
Applied(f, r) ==
    /\ applied.flt.cls = "none"
    /\ applied' = [flt |-> f, result |-> r]
    /\ UNCHANGED <<statement, models>>
    /\ UNCHANGED repoVars
    /\ UNCHANGED pg

ApplyLimitOffset ==
    \E f \in LimitOffsets : Applied(f, LimitOffset_append(f, statement, models))
ApplyOrderBy ==
    \E f \in OrderBys : Applied(f, OrderBy_append(f, statement, models))
ApplyEqFilter ==
    \E f \in EqFilters : Applied(f, EqFilter_append(f, statement, models))
ApplyDatesTypeFilter ==
    \E f \in DatesTypeFilters :
        Applied(f, DatesTypeFilter_append(f, statement, models))
ApplySearchFilter ==
    \E f \in SearchFilters : Applied(f, SearchFilter_append(f, statement, models))
ApplyInFilter ==
    \E f \in InFilters : Applied(f, InFilter_append(f, statement, models))
ApplyNotInFilter ==
    \E f \in NotInFilters : Applied(f, NotInFilter_append(f, statement, models))
ApplyBeforeFilter ==
    \E f \in BeforeFilters : Applied(f, BeforeFilter_append(f, statement, models))
ApplyOnBeforeFilter ==
    \E f \in OnBeforeFilters :
        Applied(f, OnBeforeFilter_append(f, statement, models))
ApplyAfterFilter ==
    \E f \in AfterFilters : Applied(f, AfterFilter_append(f, statement, models))
ApplyOnAfterFilter ==
    \E f \in OnAfterFilters :
        Applied(f, OnAfterFilter_append(f, statement, models))

\* A direct call of _get_instrumented_attr with a name or an attribute handle
ResolveAttr ==
    \E key \in Names \cup {Attr(User, "status"), Attr(Profile, "bio")} :
        Applied([cls |-> "_get_instrumented_attr", key |-> key],
                GetInstrumentedAttr(models, key))

NextFilter ==
    \/ ApplyLimitOffset
    \/ ApplyOrderBy
    \/ ApplyEqFilter
    \/ ApplyDatesTypeFilter
    \/ ApplySearchFilter
    \/ ApplyInFilter
    \/ ApplyNotInFilter
    \/ ApplyBeforeFilter
    \/ ApplyOnBeforeFilter
    \/ ApplyAfterFilter
    \/ ApplyOnAfterFilter
    \/ ResolveAttr

SpecFilter == InitFilter /\ [][NextFilter]_vars

----------------------------------------------------------------------------
(* Properties of the filters, checked under SpecFilter *)

Flt == applied.flt
Out == applied.result

\* The attribute the filter's field name resolves to in this state
Got == GetInstrumentedAttr(models, Flt.field_name)

\* The field name resolves to a mapped column
Resolvable == ~Got.raised /\ Got.value.mapped

\* The output statement is the input statement with its WHERE clause narrowed
\* to the rows that also satisfy Keep
Restricts(Keep(_)) ==
    /\ ~Out.raised
    /\ Out.value.order_by = statement.order_by
    /\ Out.value.limit = statement.limit
    /\ Out.value.offset = statement.offset
    /\ \A row \in RowUniverse :
          Matches(Out.value, row) <=> (Matches(statement, row) /\ Keep(row))

Unchanged == ~Out.raised /\ Out.value = statement

IsMember(v, list) == \E i \in 1..Len(list.xs) : v = list.xs[i]

\* C2: a membership (IN) filter on a resolvable field returns the statement
\* unchanged for values=None, a statement matching no row at all for an empty
\* values, and otherwise restricts the statement to exactly the rows whose
\* field value is a member of values.
C2_InFilter ==
    (Flt.cls = "InFilter" /\ Resolvable) =>
        CASE Flt.values.t = "none" -> Unchanged
          [] Flt.values.xs = <<>> ->
                ~Out.raised /\ \A row \in RowUniverse : ~Matches(Out.value, row)
          [] OTHER ->
                LET Keep(row) == IsMember(RowValue(row, Got.value), Flt.values)
                IN  Restricts(Keep)

\* C2 witness: an empty IN list was applied to a statement that matches rows
C2_Witness ==
    /\ Flt.cls = "InFilter"
    /\ Resolvable
    /\ Flt.values = PyList(<<>>)
    /\ ~Out.raised
    /\ \E row \in RowUniverse : Matches(statement, row)

\* C3: a NOT-IN filter on a resolvable field returns the statement unchanged
\* for empty or None values and otherwise matches exactly the rows of the
\* input statement whose field value is not a member of values.
C3_NotInFilter ==
    (Flt.cls = "NotInFilter" /\ Resolvable) =>
        IF ~Truthy(Flt.values) THEN Unchanged
        ELSE LET Keep(row) == ~IsMember(RowValue(row, Got.value), Flt.values)
             IN  Restricts(Keep)

\* Whether a timestamp lies within calendar day d, 00:00:00 to 23:59:59
WithinDay(ts, d) ==
    /\ SqlLe(DateTime(d, 0, 0, 0, 0), ts)
    /\ SqlLe(ts, DateTime(d, 23, 59, 59, 0))

\* C4: a range filter whose min and max are the same plain calendar date D,
\* applied to a date-time field, matches exactly the rows whose field lies
\* between D 00:00:00 and D 23:59:59 inclusive.
C4_SameDayRange ==
    (/\ Flt.cls = "DatesTypeFilter"
     /\ Flt.field_name = Name("created_at")
     /\ Flt.value.t = "DatesType"
     /\ Flt.value.min \in Dates
     /\ Flt.value.max = Flt.value.min) =>
        LET Keep(row) == WithinDay(RowValue(row, Got.value), Flt.value.min.day)
        IN  Restricts(Keep)

\* A bound as the range filter compares it: a date-time min is moved to
\* 00:00:00 of its day and a date-time max to 23:59:59 of its day, their
\* microseconds kept; a plain date is used as given
StartOfDay(v) ==
    IF v.t = "datetime" THEN DateTime(v.day, 0, 0, 0, v.microsecond) ELSE v
EndOfDay(v) ==
    IF v.t = "datetime" THEN DateTime(v.day, 23, 59, 59, v.microsecond) ELSE v

\* The rows a range filter keeps when it compares the bounds lo and hi
\* ("none" for an open side)
RangeKeeps(lo, hi) ==
    LET Keep(row) ==
            /\ lo # NoneStr => SqlLe(Bind(lo), RowValue(row, Got.value))
            /\ hi # NoneStr => SqlLe(RowValue(row, Got.value), Bind(hi))
    IN  Restricts(Keep)

\* The same rows as a single inclusive-before (<=) filter with bound hi
SameAsOnBefore(hi) ==
    LET single == OnBeforeFilter_append(OnBeforeFilter(Flt.field_name, hi),
                                        statement, models)
    IN  /\ ~single.raised
        /\ \A row \in RowUniverse :
              Matches(Out.value, row) <=> Matches(single.value, row)

IsRange == Flt.cls = "DatesTypeFilter" /\ Resolvable

\* C5 as stated: the range filter compares the bounds exactly as supplied.
C5_RangeAsSupplied ==
    IsRange =>
        IF Flt.value.t = "none" THEN Unchanged
        ELSE IF Flt.value.min = NoneStr /\ Flt.value.max = NoneStr THEN Unchanged
        ELSE /\ RangeKeeps(Flt.value.min, Flt.value.max)
             /\ (Flt.value.min = NoneStr) => SameAsOnBefore(Flt.value.max)

\* C5 (amended): for a range filter with a present value on a resolvable
\* field, with each date-time bound first normalized (min to 00:00:00 and
\* max to 23:59:59 of its day) and each plain date used as given: both bounds
\* concrete gives the inclusive interval [min, max] as one BETWEEN predicate,
\* only min gives field >= min, only max gives field <= max (the rows of a
\* single inclusive-before filter with that bound), both "none" or an absent
\* value return the statement unchanged.
C5_Range ==
    IsRange =>
        IF Flt.value.t = "none" THEN Unchanged
        ELSE IF Flt.value.min = NoneStr /\ Flt.value.max = NoneStr THEN Unchanged
        ELSE /\ RangeKeeps(StartOfDay(Flt.value.min), EndOfDay(Flt.value.max))
             /\ Len(Out.value.where) = Len(statement.where) + 1
             /\ (Flt.value.min # NoneStr /\ Flt.value.max # NoneStr) =>
                    Out.value.where[Len(Out.value.where)].op = "between"
             /\ (Flt.value.min = NoneStr) =>
                    SameAsOnBefore(EndOfDay(Flt.value.max))

\* C5 witness: a one-sided range whose min is a date-time past midnight
C5_Witness ==
    /\ IsRange
    /\ Flt.value.t = "DatesType"
    /\ Flt.value.min.t = "datetime"
    /\ Flt.value.min.hour = 12
    /\ Flt.value.max = NoneStr
    /\ ~Out.raised
    /\ Out.value # statement

\* The filter carries an absent value
Absent ==
    CASE Flt.cls = "EqFilter" -> ~Truthy(Flt.value)
      [] Flt.cls = "InFilter" -> Flt.values.t = "none"
      [] Flt.cls = "NotInFilter" -> ~Truthy(Flt.values)
      [] Flt.cls = "DatesTypeFilter" -> Flt.value.t = "none"
      [] Flt.cls \in {"BeforeFilter", "OnBeforeFilter", "AfterFilter",
                      "OnAfterFilter"} -> Flt.value.t = "none"
      [] Flt.cls = "SearchFilter" -> ~Truthy(Flt.value)
      [] Flt.cls = "OrderBy" -> Flt.field_name \in {None, Name("")}
      [] OTHER -> FALSE

\* C6: every filter variant applied with an absent value returns the input
\* statement unchanged and raises no error, whatever the field name and the
\* candidate list, a field name no candidate exposes included.
C6_AbsentIsNoOp == Absent => Unchanged

\* The first candidate, in list order, with a mapped attribute named k (0: none)
RECURSIVE FirstMapped(_, _, _)
FirstMapped(ms, k, i) ==
    IF i > Len(ms) THEN 0
    ELSE IF k \in ms[i].mapped THEN i
    ELSE FirstMapped(ms, k, i + 1)

\* C10: the attribute resolver returns the mapped attribute named key of the
\* first candidate that exposes one, and fails with an error naming the key
\* and the tables searched when no candidate exposes one.
C10_Resolver ==
    Flt.cls = "_get_instrumented_attr" =>
        LET k == IF Flt.key.t = "attr" THEN Flt.key.key ELSE Flt.key.s
            i == FirstMapped(models, k, 1)
        IN  IF i # 0
            THEN Out = Return([t |-> "attr", model |-> models[i].name,
                               key |-> k, mapped |-> TRUE])
            ELSE /\ Out.raised
                 /\ Out.error.type = "AttributeError"
                 /\ Out.error.key = k
                 /\ Out.error.tables = [j \in 1..Len(models) |-> models[j].table]

----------------------------------------------------------------------------
(* Paginators (_paginate.py) *)

DefaultLimit == 30

\* The quotient rounded down, as cnt // limit would
CeilDiv_Floor(cnt, limit) == cnt \div limit

\* math.ceil(cnt / limit) for limit > 0: the quotient rounded up
CeilDiv(cnt, limit) ==
    IF cnt % limit = 0 THEN cnt \div limit ELSE (cnt \div limit) + 1

\* DefaultPaginate.paginate
DefaultPaginate_paginate(cnt, limit) ==
    IF limit > 0 THEN CeilDiv(cnt, limit) ELSE cnt

\* LoadPaginate.paginate
LoadPaginate_paginate(cnt) == cnt

Counts == 0..MaxCount
PageSizes == (0 - MaxLimit)..MaxLimit

InitPaginate ==
    /\ pg = NoPg
    /\ statement = Select(User)
    /\ models = <<User>>
    /\ applied = [flt |-> [cls |-> "none"], result |-> Return(statement)]
    /\ builder = None
    /\ resolver = None
    /\ paginate = None
    /\ call = NoCall

\* paginate(cnt, limit) of the page-based policy
CallDefaultPaginate ==
    /\ pg.cls = "none"
    /\ \E cnt \in Counts, limit \in PageSizes :
          pg' = [cls |-> "DefaultPaginate", nargs |-> 2, cnt |-> cnt,
                 limit |-> limit,
                 total |-> DefaultPaginate_paginate(cnt, limit)]
    /\ UNCHANGED filterVars
    /\ UNCHANGED repoVars

\* paginate(cnt) of the page-based policy: limit takes its default
CallDefaultPaginateNoLimit ==
    /\ pg.cls = "none"
    /\ \E cnt \in Counts :
          pg' = [cls |-> "DefaultPaginate", nargs |-> 1, cnt |-> cnt,
                 limit |-> DefaultLimit,
                 total |-> DefaultPaginate_paginate(cnt, DefaultLimit)]
    /\ UNCHANGED filterVars
    /\ UNCHANGED repoVars

\* paginate(cnt) of the load-more policy
CallLoadPaginate ==
    /\ pg.cls = "none"
    /\ \E cnt \in Counts :
          pg' = [cls |-> "LoadPaginate", nargs |-> 1, cnt |-> cnt, limit |-> 0,
                 total |-> LoadPaginate_paginate(cnt)]
    /\ UNCHANGED filterVars
    /\ UNCHANGED repoVars

NextPaginate ==
    \/ CallDefaultPaginate
    \/ CallDefaultPaginateNoLimit
    \/ CallLoadPaginate

SpecPaginate == InitPaginate /\ [][NextPaginate]_vars

\* C9: the page-based paginator returns ceil(count / page_size) when
\* page_size > 0 (the least number of pages of page_size rows that hold count
\* rows) and count otherwise; paginate(95, 30) = 4, paginate(0, 30) = 0 and
\* paginate(95, 0) = 95.
C9_PageCount ==
    pg.cls = "DefaultPaginate" =>
        /\ pg.limit > 0 =>
              /\ pg.total * pg.limit >= pg.cnt
              /\ pg.total * pg.limit < pg.cnt + pg.limit
        /\ pg.limit <= 0 => pg.total = pg.cnt
        /\ (pg.cnt = 95 /\ pg.limit = 30) => pg.total = 4
        /\ (pg.cnt = 0 /\ pg.limit = 30) => pg.total = 0
        /\ (pg.cnt = 95 /\ pg.limit = 0) => pg.total = 95

\* C9 witness: paginate(95, 30) was called and returned 4
C9_Witness ==
    pg = [cls |-> "DefaultPaginate", nargs |-> 2, cnt |-> 95, limit |-> 30,
          total |-> 4]

----------------------------------------------------------------------------
(* Statement builder (_build.py) *)

\* DefaultBuildSql.__init__
NewBuilder(cls, model) == [cls |-> cls, model |-> model]

\* DefaultBuildSql._stmt, and the _stmt of a BaseBuildSql subclass that joins
\* the profile of each user: select(User).join(Profile), [User, Profile]
BuilderStmt(b) ==
    IF b.cls = "DefaultBuildSql" THEN <<Select(User), <<User>>>>
    ELSE <<[Select(User) EXCEPT !.from = "User JOIN Profile"], <<User, Profile>>>>

\* isinstance(flt, StatementFilter): anything else is a raw boolean expression
IsStatementFilter(f) == "cls" \in DOMAIN f

\* DefaultBuildSql._filter_by_expression
FilterByExpression(stmt, expression) == Where(stmt, expression)

\* DefaultBuildSql._apply_filters: the filters are folded left to right and
\* the first error ends the fold
RECURSIVE ApplyFilters(_, _, _, _)
ApplyFilters(stmt, ms, filters, i) ==
    IF i > Len(filters) THEN Return(stmt)
    ELSE IF IsStatementFilter(filters[i])
         THEN LET r == AppendToStatement(filters[i], stmt, ms)
              IN  IF r.raised THEN r ELSE ApplyFilters(r.value, ms, filters, i + 1)
    ELSE ApplyFilters(FilterByExpression(stmt, filters[i]), ms, filters, i + 1)

\* DefaultBuildSql.build
Build(b, filters) ==
    LET sm == BuilderStmt(b)
    IN  ApplyFilters(sm[1], sm[2], filters, 1)

----------------------------------------------------------------------------
(* The session: the rows of the database and the execution of a statement *)

\* One user per primary key, each with its profile
SessionRows ==
    {[User |-> [id |-> PyInt(i),
                status |-> IF i % 2 = 1 THEN PyStr(<<"a">>) ELSE PyStr(<<"A", "b">>),
                created_at |-> DateTime(1 + (i % MaxDay), 12, 30, 15, 0)],
      Profile |-> [id |-> PyInt(i), display |-> PyStr(<<"b">>),
                   bio |-> PyStr(<<"a", "b">>)]] : i \in Ids}

\* Whether row a sorts before row b under the ORDER BY list from entry i on;
\* ties, and statements without ORDER BY, come back in primary-key order
RECURSIVE RowBefore(_, _, _, _)
RowBefore(a, b, order_by, i) ==
    IF i > Len(order_by) THEN a.User.id.v < b.User.id.v
    ELSE LET x == RowValue(a, order_by[i].field)
             y == RowValue(b, order_by[i].field)
         IN  IF x = y THEN RowBefore(a, b, order_by, i + 1)
             ELSE IF order_by[i].dir = "desc" THEN SqlLt(y, x) ELSE SqlLt(x, y)

RECURSIVE Sorted(_, _)
Sorted(rows, order_by) ==
    IF rows = {} THEN <<>>
    ELSE LET first == CHOOSE r \in rows :
                          \A q \in rows \ {r} : RowBefore(r, q, order_by, 1)
         IN  <<first>> \o Sorted(rows \ {first}, order_by)

\* OFFSET and LIMIT applied to an ordered result
Slice(seq, limit, offset) ==
    LET skip == IF offset.t = "none" THEN 0 ELSE offset.v
        rest == SubSeq(seq, skip + 1, Len(seq))
    IN  IF limit.t = "none" \/ limit.v >= Len(rest) THEN rest
        ELSE SubSeq(rest, 1, limit.v)

\* session.execute(statement): the result rows.  A COUNT statement yields one
\* row holding the count; an entity statement yields the matching rows.
Execute(stmt) ==
    LET matching == {r \in SessionRows : Matches(stmt, r)}
    IN  IF stmt.columns = "count"
        THEN Slice(<<PyInt(Cardinality(matching))>>, stmt.limit, stmt.offset)
        ELSE Slice(Sorted(matching, stmt.order_by), stmt.limit, stmt.offset)

\* Result.scalars().all() hands out entities, Result.all() Row objects
Items(rows, is_scalars) ==
    [i \in 1..Len(rows) |->
        [t |-> "item", kind |-> IF is_scalars THEN "entity" ELSE "row",
         id |-> rows[i].User.id.v]]

\* Result.first(): the first item or None
First(items) == IF items = <<>> THEN None ELSE items[1]

\* Result.scalar(): the first column of the first row or None
Scalar(rows) == IF rows = <<>> THEN None ELSE rows[1]

\* The count statement with the OFFSET left in place
CountStatement_KeepsOffset(stmt) ==
    [stmt EXCEPT !.columns = "count", !.order_by = <<>>, !.limit = None]

\* statement.with_only_columns(count(id)).order_by(None).limit(None).offset(None)
CountStatement(stmt) ==
    [stmt EXCEPT !.columns = "count", !.order_by = <<>>, !.limit = None,
                 !.offset = None]

----------------------------------------------------------------------------
(* Result resolver (_resolver.py) *)

\* DefaultResolver.process_item; the process_item of a BaseResolver subclass
\* that turns every item into a transfer object
ProcessItem(r, item) ==
    IF item.t = "none" THEN item
    ELSE IF r.cls = "DefaultResolver"
         THEN IF item.kind = "row" THEN [item EXCEPT !.kind = "mapping"] ELSE item
    ELSE [item EXCEPT !.kind = "dto"]

\* DefaultResolver.process_items, and that of the subclass
ProcessItems(r, items) ==
    [i \in 1..Len(items) |->
        IF r.cls = "DefaultResolver"
        THEN IF items[i].kind = "row" THEN [items[i] EXCEPT !.kind = "mapping"]
             ELSE items[i]
        ELSE [items[i] EXCEPT !.kind = "dto"]]

----------------------------------------------------------------------------
(* Repository (_repository.py) *)

Class(name) == [t |-> "class", name |-> name]

BuilderClasses == {Class("DefaultBuildSql"), Class("JoinBuildSql")}
ResolverClasses == {Class("DefaultResolver"), Class("DtoResolver")}
PaginateClasses == {Class("DefaultPaginate"), Class("LoadPaginate")}

\* resolver(), paginate(): an instance of the class
New(cls) == [cls |-> cls.name]

\* The filter lists the callers pass
FilterLists ==
    {<<>>,
     <<LimitOffset(1, 0), OrderBy(Name("created_at"), "desc", None),
       LimitOffset(2, 1)>>,
     <<EqFilter(Name("status"), PyStr(<<"a">>)),
       InFilter(Name("id"), PyList(<<PyInt(1), PyInt(2)>>)),
       Cmp(">=", Attr(User, "id"), PyInt(1)),
       OrderBy(Name("id"), "desc", None), LimitOffset(0, 0)>>,
     <<EqFilter(Name("bio"), PyStr(<<"a", "b">>))>>}

\* What the collaborators do during a call: nothing goes wrong, the session
\* fails on the statement, the session fails on the count statement, or a
\* custom resolver fails on the rows
Failures == {"none", "execute", "count", "process"}

\* The state of a call when it ends: the strategies the repository then
\* stores, the stage the call ended in, what it returned or raised, the
\* strategies it invoked and the arguments it handed to the paginator
Ended(b, r, p, stage, out, usedR, usedP, fed) ==
    [builder |-> b, resolver |-> r, paginate |-> p, stage |-> stage,
     out |-> out, used |-> [builder |-> b, resolver |-> usedR, paginate |-> usedP],
     fed |-> fed]

SessionError == Raise("SessionError", "execute", <<>>)
ResolverError == Raise("ResolverError", "process_items", <<>>)

\* The limit scanned from the supplied filters: the last LimitOffset wins
RECURSIVE ScanLimit(_, _, _)
ScanLimit(flt, i, limit) ==
    IF i > Len(flt) THEN limit
    ELSE IF IsStatementFilter(flt[i]) /\ flt[i].cls = "LimitOffset"
         THEN ScanLimit(flt, i + 1, flt[i].limit)
    ELSE ScanLimit(flt, i + 1, limit)

\* self.__paginate.paginate(cnt, limit): two positional arguments, which
\* LoadPaginate.paginate(self, cnt) does not accept
PaginateCall(p, cnt, limit) ==
    IF p.cls = "LoadPaginate" THEN Raise("TypeError", "paginate", <<>>)
    ELSE Return(DefaultPaginate_paginate(cnt, limit))

\* get_list with the builder override rolled back when the call fails
GetList_Atomic(self, flt, is_scalars, b, r, fail) ==
    LET b1 == IF Truthy(b) THEN NewBuilder(b.name, "User") ELSE self.builder
        built == Build(b1, flt)
        rows == Items(Execute(built.value), is_scalars)
        r1 == IF Truthy(r) THEN New(r) ELSE self.resolver
    IN  IF built.raised
        THEN Ended(self.builder, self.resolver, self.paginate, "build", built,
                   None, None, None)
        ELSE IF fail = "execute"
        THEN Ended(self.builder, self.resolver, self.paginate, "execute",
                   SessionError, None, None, None)
        ELSE IF fail = "process"
        THEN Ended(b1, r1, self.paginate, "process", ResolverError, r1, None, None)
        ELSE Ended(b1, r1, self.paginate, "done", Return(ProcessItems(r1, rows)),
                   r1, None, None)

\* Base.get_list
GetList(self, flt, is_scalars, b, r, fail) ==
    LET b1 == IF Truthy(b) THEN NewBuilder(b.name, "User") ELSE self.builder
        built == Build(b1, flt)
        rows == Items(Execute(built.value), is_scalars)
        r1 == IF Truthy(r) THEN New(r) ELSE self.resolver
    IN  IF built.raised
        THEN Ended(b1, self.resolver, self.paginate, "build", built, None, None, None)
        ELSE IF fail = "execute"
        THEN Ended(b1, self.resolver, self.paginate, "execute", SessionError,
                   None, None, None)
        ELSE IF fail = "process"
        THEN Ended(b1, r1, self.paginate, "process", ResolverError, r1, None, None)
        ELSE Ended(b1, r1, self.paginate, "done", Return(ProcessItems(r1, rows)),
                   r1, None, None)

\* Base.get_list_with_paginate
GetListWithPaginate(self, flt, is_scalars, b, r, p, fail) ==
    LET b1 == IF Truthy(b) THEN NewBuilder(b.name, "User") ELSE self.builder
        built == Build(b1, flt)
        rows == Items(Execute(built.value), is_scalars)
        scalar == Scalar(Execute(CountStatement(built.value)))
        cnt == IF Truthy(scalar) THEN scalar.v ELSE 0
        r1 == IF Truthy(r) THEN New(r) ELSE self.resolver
        p1 == IF Truthy(p) THEN New(p) ELSE self.paginate
        limit == ScanLimit(flt, 1, DefaultLimit)
        total == PaginateCall(p1, cnt, limit)
    IN  IF built.raised
        THEN Ended(b1, self.resolver, self.paginate, "build", built, None, None, None)
        ELSE IF fail = "execute"
        THEN Ended(b1, self.resolver, self.paginate, "execute", SessionError,
                   None, None, None)
        ELSE IF fail = "count"
        THEN Ended(b1, self.resolver, self.paginate, "count", SessionError,
                   None, None, None)
        ELSE IF fail = "process"
        THEN Ended(b1, r1, self.paginate, "process", ResolverError, r1, None, None)
        ELSE IF total.raised
        THEN Ended(b1, r1, p1, "paginate", total, r1, p1, <<cnt, limit>>)
        ELSE Ended(b1, r1, p1, "done",
                   Return(<<ProcessItems(r1, rows), total.value>>),
                   r1, p1, <<cnt, limit>>)

\* get_one with the resolver override installed before the build
GetOne_ResolverFirst(self, flt, is_scalars, b, r, fail) ==
    LET b1 == IF Truthy(b) THEN NewBuilder(b.name, "User") ELSE self.builder
        r1 == IF Truthy(r) THEN New(r) ELSE self.resolver
        built == Build(b1, flt)
        row == First(Items(Execute(built.value), is_scalars))
    IN  IF built.raised
        THEN Ended(b1, r1, self.paginate, "build", built, None, None, None)
        ELSE IF fail = "execute"
        THEN Ended(b1, r1, self.paginate, "execute", SessionError,
                   None, None, None)
        ELSE IF fail = "process"
        THEN Ended(b1, r1, self.paginate, "process", ResolverError, r1, None, None)
        ELSE Ended(b1, r1, self.paginate, "done", Return(ProcessItem(r1, row)),
                   r1, None, None)

\* Base.get_one
GetOne(self, flt, is_scalars, b, r, fail) ==
    LET b1 == IF Truthy(b) THEN NewBuilder(b.name, "User") ELSE self.builder
        built == Build(b1, flt)
        row == First(Items(Execute(built.value), is_scalars))
        r1 == IF Truthy(r) THEN New(r) ELSE self.resolver
    IN  IF built.raised
        THEN Ended(b1, self.resolver, self.paginate, "build", built, None, None, None)
        ELSE IF fail = "execute"
        THEN Ended(b1, self.resolver, self.paginate, "execute", SessionError,
                   None, None, None)
        ELSE IF fail = "process"
        THEN Ended(b1, r1, self.paginate, "process", ResolverError, r1, None, None)
        ELSE Ended(b1, r1, self.paginate, "done", Return(ProcessItem(r1, row)),
                   r1, None, None)

Self == [builder |-> builder, resolver |-> resolver, paginate |-> paginate]

\* Base.__init__, with User bound as the record type
Init ==
    /\ builder = NewBuilder("DefaultBuildSql", "User")
    /\ resolver = New(Class("DefaultResolver"))
    /\ paginate = New(Class("DefaultPaginate"))
    /\ call = NoCall
    /\ statement = Select(User)
    /\ models = <<User>>
    /\ applied = [flt |-> [cls |-> "none"], result |-> Return(statement)]
    /\ pg = NoPg

\* The failure the collaborators can produce in a call that would invoke the
\* resolver r: only a custom resolver can fail on the rows
CanFail(fail, method, r) ==
    /\ fail = "count" => method = "get_list_with_paginate"
    /\ fail = "process" => r.cls # "DefaultResolver"

\* The call ends: the strategies are stored and the call recorded
Finish(method, flt, is_scalars, b, r, p, e) ==
    /\ builder' = e.builder
    /\ resolver' = e.resolver
    /\ paginate' = e.paginate
    /\ call' = [method |-> method, flt |-> flt, is_scalars |-> is_scalars,
                builder |-> b, resolver |-> r, paginate |-> p,
                stage |-> e.stage, out |-> e.out, used |-> e.used, fed |-> e.fed]
    /\ UNCHANGED filterVars
    /\ UNCHANGED pg

CallGetList ==
    \E flt \in FilterLists, is_scalars \in BOOLEAN,
       b \in BuilderClasses \cup {None}, r \in ResolverClasses \cup {None},
       fail \in Failures :
        /\ CanFail(fail, "get_list", IF Truthy(r) THEN New(r) ELSE resolver)
        /\ Finish("get_list", flt, is_scalars, b, r, None,
                  GetList(Self, flt, is_scalars, b, r, fail))

\* Row results (is_scalars=False) are drawn in get_list and get_one, whose
\* execution branch is the same; here the entities are selected
CallGetListWithPaginate ==
    \E flt \in FilterLists, is_scalars \in {TRUE},
       b \in BuilderClasses \cup {None}, r \in ResolverClasses \cup {None},
       p \in PaginateClasses \cup {None}, fail \in Failures :
        /\ CanFail(fail, "get_list_with_paginate",
                   IF Truthy(r) THEN New(r) ELSE resolver)
        /\ Finish("get_list_with_paginate", flt, is_scalars, b, r, p,
                  GetListWithPaginate(Self, flt, is_scalars, b, r, p, fail))

CallGetOne ==
    \E flt \in FilterLists, is_scalars \in BOOLEAN,
       b \in BuilderClasses \cup {None}, r \in ResolverClasses \cup {None},
       fail \in Failures :
        /\ CanFail(fail, "get_one", IF Truthy(r) THEN New(r) ELSE resolver)
        /\ Finish("get_one", flt, is_scalars, b, r, None,
                  GetOne(Self, flt, is_scalars, b, r, fail))

Next ==
    \/ CallGetList
    \/ CallGetListWithPaginate
    \/ CallGetOne

Spec == Init /\ [][Next]_vars

----------------------------------------------------------------------------
(* Properties of the repository, checked under Spec *)

\* The call just made supplied no override: it leaves the stored strategies
\* as they were
NoOverrideNoChange ==
    /\ call'.builder = None => builder' = builder
    /\ call'.resolver = None => resolver' = resolver
    /\ call'.paginate = None => paginate' = paginate

\* The call just made invoked the strategies the repository stores after it
UsesStored ==
    /\ call'.used.builder = builder'
    /\ call'.used.resolver # None => call'.used.resolver = resolver'
    /\ call'.used.paginate # None => call'.used.paginate = paginate'

\* The call just made got as far as invoking the resolver / the paginator
ReachedResolver == call'.stage \in {"process", "paginate", "done"}
ReachedPaginate == call'.stage \in {"paginate", "done"}

\* C1 as stated: every override a call supplies becomes the stored strategy.
C1_EveryOverrideStored ==
    [][/\ call'.builder # None => builder' = NewBuilder(call'.builder.name, "User")
       /\ call'.resolver # None => resolver' = New(call'.resolver)
       /\ call'.paginate # None => paginate' = New(call'.paginate)
       /\ NoOverrideNoChange]_vars

\* C1 (amended): an override becomes the stored strategy, used by that call
\* and kept by every later call that supplies none of its kind, once the
\* call reaches the point where it is installed: a builder override always,
\* a resolver override when the build and the session's execution succeed,
\* a paginator override when the resolver has also processed the rows; an
\* override the call does not reach is dropped, and a call without overrides
\* never changes the stored strategies.
C1_OverridePersists ==
    [][/\ call'.builder # None => builder' = NewBuilder(call'.builder.name, "User")
       /\ call'.resolver # None =>
             resolver' = IF ReachedResolver THEN New(call'.resolver) ELSE resolver
       /\ call'.paginate # None =>
             paginate' = IF ReachedPaginate THEN New(call'.paginate) ELSE paginate
       /\ ReachedResolver => call'.used.resolver # None
       /\ (ReachedPaginate /\ call'.method = "get_list_with_paginate") =>
             call'.used.paginate # None
       /\ UsesStored
       /\ NoOverrideNoChange]_vars

\* C1 witness: a call without a resolver override ran to completion over the
\* resolver and the builder that earlier calls had installed
C1_Witness ==
    /\ call.method = "get_one"
    /\ call.resolver = None
    /\ call.builder = None
    /\ call.stage = "done"
    /\ call.used.resolver = New(Class("DtoResolver"))
    /\ call.used.builder = NewBuilder("JoinBuildSql", "User")

\* The rows of the session that satisfy every predicate among the supplied
\* filters, whatever their ordering, limit and offset
Satisfies(row, flt, ms) ==
    \A i \in 1..Len(flt) :
        LET f == flt[i]
        IN  IF ~IsStatementFilter(f) THEN Match(f, row)
            ELSE LET j == FirstMapped(ms, f.field_name.s, 1)
                 IN  CASE f.cls = "EqFilter" ->
                            row[ms[j].name][f.field_name.s] = f.value
                       [] f.cls = "InFilter" ->
                            IsMember(row[ms[j].name][f.field_name.s], f.values)
                       [] OTHER -> TRUE

MatchingCount(flt, b) ==
    Cardinality({row \in SessionRows :
                    Satisfies(row, flt, IF b.cls = "DefaultBuildSql"
                                        THEN <<User>> ELSE <<User, Profile>>)})

\* The limit of the last LimitOffset among the supplied filters, else 30
LastLimit(flt) ==
    LET at == {i \in 1..Len(flt) : IsStatementFilter(flt[i])
                                   /\ flt[i].cls = "LimitOffset"}
    IN  IF at = {} THEN 30
        ELSE flt[CHOOSE i \in at : \A j \in at : j <= i].limit

\* C7: with the load-more policy selected, get_list_with_paginate completes
\* and the second element of its result is the total row count.
C7_LoadMoreReturnsCount ==
    (/\ call.method = "get_list_with_paginate"
     /\ call.stage \in {"paginate", "done"}
     /\ call.used.paginate = New(Class("LoadPaginate"))) =>
        /\ ~call.out.raised
        /\ call.out.value[2] = MatchingCount(call.flt, call.used.builder)

\* C8: get_list_with_paginate hands the paginator (count, limit): count is
\* the number of rows that satisfy the predicates of the supplied filters,
\* whatever their ordering, limit and offset, and limit is that of the last
\* LimitOffset filter supplied, or 30 without one.
C8_PaginatorArguments ==
    (/\ call.method = "get_list_with_paginate"
     /\ call.stage \in {"paginate", "done"}) =>
        call.fed = <<MatchingCount(call.flt, call.used.builder),
                     LastLimit(call.flt)>>

\* C8 witness: a call with two LimitOffset filters, the last with an offset,
\* returned fewer rows than it counted
C8_Witness ==
    /\ call.method = "get_list_with_paginate"
    /\ call.stage = "done"
    /\ Len(call.flt) = 3
    /\ call.fed[2] = 2
    /\ call.fed[1] > Len(call.out.value[1])
    /\ call.fed[1] = Cardinality(SessionRows)

----------------------------------------------------------------------------
(* SpecConstruct: a Repository class, its construction and its first call *)

\* A class attribute that is annotated but never assigned
Unset == [t |-> "unset"]

\* What a Repository subclass binds as _model: nothing at all, None, or User
ModelBindings == {Unset, None, Class("User")}

\* Base.__init__: what the constructor raises or returns.  Reading an
\* attribute that was never assigned raises AttributeError before the test.
BaseInit(model) ==
    IF model.t = "unset" THEN Raise("AttributeError", "_model", <<>>)
    ELSE IF ~Truthy(model) THEN Raise("ValueError", "_model", <<>>)
    ELSE Return([builder |-> NewBuilder("DefaultBuildSql", model.name),
                 resolver |-> New(Class("DefaultResolver")),
                 paginate |-> New(Class("DefaultPaginate"))])

\* The class is defined and no instance exists yet
InitConstruct ==
    /\ call \in {[method |-> "class", model |-> m] : m \in ModelBindings}
    /\ builder = None
    /\ resolver = None
    /\ paginate = None
    /\ statement = Select(User)
    /\ models = <<User>>
    /\ applied = [flt |-> [cls |-> "none"], result |-> Return(statement)]
    /\ pg = NoPg

\* Repo(session)
Construct ==
    /\ call.method = "class"
    /\ LET r == BaseInit(call.model)
       IN  /\ call' = [method |-> "__init__", model |-> call.model, out |-> r]
           /\ builder' = IF r.raised THEN builder ELSE r.value.builder
           /\ resolver' = IF r.raised THEN resolver ELSE r.value.resolver
           /\ paginate' = IF r.raised THEN paginate ELSE r.value.paginate
    /\ UNCHANGED filterVars
    /\ UNCHANGED pg

\* The constructor returned: an instance exists and nothing was called on it
Constructed == call.method = "__init__" /\ ~call.out.raised

NextConstruct ==
    \/ Construct
    \/ (Constructed /\ CallGetList)
    \/ (Constructed /\ CallGetListWithPaginate)
    \/ (Constructed /\ CallGetOne)

SpecConstruct == InitConstruct /\ [][NextConstruct]_vars

\* C11: constructing a Repository whose class binds no record type (the
\* model unset or None) fails with the missing-record-type error (the
\* ValueError of __init__) and leaves no instance, so no statement is built
\* or executed and no get_* call is ever made on such a class.
C11_MissingRecordType ==
    /\ (call.method = "__init__" /\ call.model \in {Unset, None}) =>
          /\ call.out.raised
          /\ call.out.error.type = "ValueError"
          /\ builder = None
    /\ call.method \in {"get_list", "get_list_with_paginate", "get_one"} =>
          builder.model = "User"

----------------------------------------------------------------------------
(* Failure atomicity of a call, checked under Spec *)

\* C12: a call that fails during the statement build or the session's
\* execution has already stored the builder override it supplied, and leaves
\* the resolver and the paginator as they were, whatever overrides of those
\* it supplied.
C12_FailedCallNotAtomic ==
    [][call'.stage \in {"build", "execute", "count"} =>
          /\ call'.out.raised
          /\ builder' = IF call'.builder # None
                        THEN NewBuilder(call'.builder.name, "User") ELSE builder
          /\ resolver' = resolver
          /\ paginate' = paginate]_vars

\* C12 witness: a call that supplied all three overrides failed in the
\* session; the new builder is stored, the old resolver and paginator remain
C12_Witness ==
    /\ call.method = "get_list_with_paginate"
    /\ call.stage = "execute"
    /\ call.builder = Class("JoinBuildSql")
    /\ call.resolver = Class("DtoResolver")
    /\ call.paginate = Class("LoadPaginate")
    /\ builder = NewBuilder("JoinBuildSql", "User")
    /\ resolver = New(Class("DefaultResolver"))
    /\ paginate = New(Class("DefaultPaginate"))

====
